---- MODULE Spec2Model ----
(***************************************************************************)
(* Model of scripts/add-agpl-headers.py: the scan of a project tree for    *)
(* TypeScript sources, the detection of an existing licence header, the    *)
(* choice of a description, and the (shebang-aware) rewrite of each file.  *)
(*                                                                         *)
(* Text is modelled by TLA+ strings (sequences of characters); a path is   *)
(* the sequence of its parts, as pathlib's Path.parts.  What is stored on  *)
(* disk is a string as well, in which BadByte stands for a byte sequence   *)
(* that is not valid UTF-8.                                                *)
(***************************************************************************)
EXTENDS Integers, Sequences, FiniteSets, TLC

VARIABLES root, tree, fs, dry_run, pc, source_files, idx, modified_count,
          results, rewritten, before_run, run, failures, summary, desc_calls

vars == <<root, tree, fs, dry_run, pc, source_files, idx, modified_count,
          results, rewritten, before_run, run, failures, summary, desc_calls>>

----------------------------------------------------------------------------
(* Bounds of the model *)

\* files in a tree of the scan specification
MaxTree == 2
\* runs of main over the same tree
MaxRuns == 2
\* I/O failures the environment injects over all runs
MaxFailures == 1
\* how far around the 500-character window the abbreviated marker is placed
PadSlack == 3

----------------------------------------------------------------------------
(* Strings *)

Min(S) == CHOOSE i \in S : \A j \in S : i <= j

CharAt(s, i) == SubSeq(s, i, i)

\* s.startswith(p)
StartsWith(s, p) == Len(s) >= Len(p) /\ SubSeq(s, 1, Len(p)) = p

\* s.endswith(p)
EndsWith(s, p) == Len(s) >= Len(p) /\ SubSeq(s, Len(s) - Len(p) + 1, Len(s)) = p

\* s.find(m) + 1: the first position at which m occurs in s, 0 if none
IndexOf(s, m) ==
    LET I == {i \in 1..(Len(s) - Len(m) + 1) :
                 CharAt(s, i) = CharAt(m, 1) /\ SubSeq(s, i, i + Len(m) - 1) = m}
    IN  IF I = {} THEN 0 ELSE Min(I)

\* m in s
Contains(s, m) == IndexOf(s, m) # 0

\* s[:n]
Prefix(s, n) == SubSeq(s, 1, IF Len(s) < n THEN Len(s) ELSE n)

\* the printable ASCII characters in code order: 32 to 95, and 97 to 126
AsciiLow == " !\"#$%&'()*+,-./0123456789:;<=>?@ABCDEFGHIJKLMNOPQRSTUVWXYZ[\\]^_"

AsciiHigh == "abcdefghijklmnopqrstuvwxyz{|}~"

\* ord(c) of a printable ASCII character
Ord(c) ==
    IF Contains(AsciiLow, c) THEN 31 + IndexOf(AsciiLow, c)
    ELSE 96 + IndexOf(AsciiHigh, c)

\* a < b on str: by code point at the first difference, a proper prefix first
StrLess(a, b) ==
    LET n == IF Len(a) < Len(b) THEN Len(a) ELSE Len(b)
        D == {i \in 1..n : CharAt(a, i) # CharAt(b, i)}
    IN  IF D = {} THEN Len(a) < Len(b)
        ELSE Ord(CharAt(a, Min(D))) < Ord(CharAt(b, Min(D)))

----------------------------------------------------------------------------
(* Program constants *)

HeaderBeforeDescription == "/**\n * Codex7 - "

HeaderAfterDescription ==
       "\n"
    \o " *\n"
    \o " * Copyright (C) 2025 Jenova Marie and Codex7 Contributors\n"
    \o " *\n"
    \o " * This program is free software: you can redistribute it and/or modify\n"
    \o " * it under the terms of the GNU Affero General Public License as published by\n"
    \o " * the Free Software Foundation, either version 3 of the License, or\n"
    \o " * (at your option) any later version.\n"
    \o " *\n"
    \o " * This program is distributed in the hope that it will be useful,\n"
    \o " * but WITHOUT ANY WARRANTY; without even the implied warranty of\n"
    \o " * MERCHANTABILITY or FITNESS FOR A PARTICULAR PURPOSE. See the\n"
    \o " * GNU Affero General Public License for more details.\n"
    \o " *\n"
    \o " * You should have received a copy of the GNU Affero General Public License\n"
    \o " * along with this program. If not, see <https://www.gnu.org/licenses/>.\n"
    \o " */\n"
    \o "\n"

\* the template with the name of the licence misspelt
AGPL_HEADER_misspelt(description) ==
    HeaderBeforeDescription \o description
    \o "\n *\n * Licensed under the GNU Affero General Public Licence.\n */\n\n"

\* AGPL_HEADER.format(description=description)
AGPL_HEADER(description) ==
    HeaderBeforeDescription \o description \o HeaderAfterDescription

\* the dict in insertion order
FILE_DESCRIPTIONS == <<
    <<"packages/shared", "Shared Types, Models, and Utilities">>,
    <<"packages/mcp-server", "MCP Server Implementation">>,
    <<"packages/api", "REST API Server">>,
    <<"packages/web", "Web Dashboard">>,
    <<"packages/indexer", "Documentation Indexing Service">>,
    <<"packages/storage-postgres", "PostgreSQL Storage Adapter">>,
    <<"packages/storage-sqlite", "SQLite Storage Adapter">>,
    <<"packages/storage-qdrant", "Qdrant Storage Adapter">> >>

DefaultDescription == "Truly Open Source Documentation MCP Server"

SKIP_DIRS == {"node_modules", "lib", "dist", "build", ".git", "coverage",
              "__pycache__", ".next", ".cache"}

SKIP_FILES == {".d.ts", ".test.ts", ".test.tsx", ".spec.ts", ".spec.tsx",
               "vitest.config.ts", "vite.config.ts", "tsconfig.json"}

FullMarker == "GNU Affero General Public License"

ShortMarker == "AGPL"

HeaderWindow == 500

----------------------------------------------------------------------------
(* Paths *)

Range(s) == {s[i] : i \in 1..Len(s)}

Last(s) == s[Len(s)]

\* Path.name
Name(path) == IF Len(path) = 0 THEN "" ELSE Last(path)

RECURSIVE Join(_)
\* str(path) of a relative path: its parts joined by the separator
Join(parts) ==
    IF Len(parts) = 0 THEN "."
    ELSE IF Len(parts) = 1 THEN parts[1]
    ELSE parts[1] \o "/" \o Join(Tail(parts))

\* file_path.relative_to(project_root); None stands for the ValueError
None == <<"<ValueError>">>

relative_to(file_path, project_root) ==
    IF Len(file_path) >= Len(project_root)
       /\ SubSeq(file_path, 1, Len(project_root)) = project_root
    THEN SubSeq(file_path, Len(project_root) + 1, Len(file_path))
    ELSE None

\* Path.__lt__: the parts compared as lists of strings
PathLess(p, q) ==
    LET n == IF Len(p) < Len(q) THEN Len(p) ELSE Len(q)
        D == {i \in 1..n : p[i] # q[i]}
    IN  IF D = {} THEN Len(p) < Len(q)
        ELSE StrLess(p[Min(D)], q[Min(D)])

RECURSIVE Insert(_, _)
\* p put before the first element of the sorted list acc that is greater
Insert(acc, p) ==
    IF Len(acc) = 0 THEN <<p>>
    ELSE IF PathLess(p, Head(acc)) THEN <<p>> \o acc
    ELSE <<Head(acc)>> \o Insert(Tail(acc), p)

RECURSIVE sorted(_)
\* sorted(list) of paths
sorted(list) ==
    IF Len(list) = 0 THEN <<>>
    ELSE Insert(sorted(Tail(list)), Head(list))

RECURSIVE SeqOf(_)
\* the elements of a set in the order an iteration happens to yield them
SeqOf(S) ==
    IF S = {} THEN <<>>
    ELSE LET x == CHOOSE y \in S : TRUE IN <<x>> \o SeqOf(S \ {x})

----------------------------------------------------------------------------
(* The functions of the script *)

\* should_skip_file comparing the name with the pattern instead of its end
should_skip_file_exact_name(file_path) ==
    \/ \E skip_dir \in SKIP_DIRS : skip_dir \in Range(file_path)
    \/ \E skip_pattern \in SKIP_FILES : Name(file_path) = skip_pattern

\* should_skip_file(file_path)
should_skip_file(file_path) ==
    \/ \E skip_dir \in SKIP_DIRS : skip_dir \in Range(file_path)
    \/ \E skip_pattern \in SKIP_FILES : EndsWith(Name(file_path), skip_pattern)

\* already_has_header looking for the abbreviated marker in the whole content
already_has_header_unbounded(content) ==
    \/ Contains(content, FullMarker)
    \/ Contains(content, ShortMarker)

\* already_has_header(content)
already_has_header(content) ==
    \/ Contains(content, FullMarker)
    \/ Contains(Prefix(content, HeaderWindow), ShortMarker)

\* get_file_description matching whole path segments instead of characters
get_file_description_by_segment(file_path, project_root) ==
    LET relative == Join(relative_to(file_path, project_root))
        M == {i \in 1..Len(FILE_DESCRIPTIONS) :
                 \/ relative = FILE_DESCRIPTIONS[i][1]
                 \/ StartsWith(relative, FILE_DESCRIPTIONS[i][1] \o "/")}
    IN  IF M = {} THEN DefaultDescription ELSE FILE_DESCRIPTIONS[Min(M)][2]

\* get_file_description(file_path, project_root): the description of the
\* first entry of the table whose key the relative path starts with
get_file_description(file_path, project_root) ==
    LET relative == Join(relative_to(file_path, project_root))
        M == {i \in 1..Len(FILE_DESCRIPTIONS) :
                 StartsWith(relative, FILE_DESCRIPTIONS[i][1])}
    IN  IF M = {} THEN DefaultDescription ELSE FILE_DESCRIPTIONS[Min(M)][2]

\* content.split('\n', 1)
split_first_line(content) ==
    LET i == IndexOf(content, "\n")
    IN  IF i = 0 THEN <<content>>
        ELSE <<SubSeq(content, 1, i - 1), SubSeq(content, i + 1, Len(content))>>

\* the content add_header_to_file builds from what it read
new_content(content, header) ==
    IF StartsWith(content, "#!")
    THEN LET lines == split_first_line(content)
         IN  lines[1] \o "\n" \o header \o (IF Len(lines) > 1 THEN lines[2] ELSE "")
    ELSE header \o content

\* root_dir.rglob(pattern), for a pattern "*" + suffix: the files of the tree
\* whose name ends with the suffix, as paths below root_dir
rglob(root_dir, files, suffix) ==
    {root_dir \o rel : rel \in {r \in files : EndsWith(Name(r), suffix)}}

\* the paths of a list that should_skip_file lets through
Kept(list) == SelectSeq(list, LAMBDA file_path : ~should_skip_file(file_path))

\* find_source_files(root_dir) over the files of the tree
find_source_files(root_dir, files) ==
    sorted(Kept(SeqOf(rglob(root_dir, files, ".ts")))
           \o Kept(SeqOf(rglob(root_dir, files, ".tsx"))))

----------------------------------------------------------------------------
(* Files: open(..., 'r' / 'w', encoding='utf-8') in text mode *)

\* a byte sequence that is not valid UTF-8
BadByte == "<FF>"

\* os.linesep
linesep == "\n"

RECURSIVE universal_newlines(_)
\* reading with newline=None: "\r\n" and "\r" are read as "\n"
universal_newlines(text) ==
    LET i == IndexOf(text, "\r")
    IN  IF i = 0 THEN text
        ELSE LET rest == SubSeq(text, i + 1, Len(text))
             IN  SubSeq(text, 1, i - 1) \o "\n"
                 \o universal_newlines(IF StartsWith(rest, "\n")
                                       THEN SubSeq(rest, 2, Len(rest))
                                       ELSE rest)

RECURSIVE translate_out(_)
\* writing with newline=None: "\n" is written as os.linesep
translate_out(text) ==
    LET i == IndexOf(text, "\n")
    IN  IF i = 0 THEN text
        ELSE SubSeq(text, 1, i - 1) \o linesep
             \o translate_out(SubSeq(text, i + 1, Len(text)))

\* f.read() can decode the bytes
Decodable(bytes) == ~Contains(bytes, BadByte)

\* f.read(): the text of decodable bytes
read(bytes) == universal_newlines(bytes)

\* f.write(text): the bytes of the text; the text is translated only when
\* the line separator is not "\n"
write(text) == IF linesep # "\n" THEN translate_out(text) ELSE text

----------------------------------------------------------------------------
(* add_header_to_file *)

\* what the environment does to one call: nothing, a failure of the open or
\* the read of the file, a failure of the open for writing, or a failure of
\* the write after the file was opened (and truncated) for writing
Outcomes == {"ok", "read_error", "open_error", "write_error"}

\* the call gets as far as opening the file for writing
ReachesWrite(bytes, dry) ==
    Decodable(bytes) /\ ~already_has_header(read(bytes)) /\ ~dry

\* the environment can produce the outcome in this call
Possible(outcome, bytes, dry) ==
    \/ outcome \in {"ok", "read_error"}
    \/ outcome \in {"open_error", "write_error"} /\ ReachesWrite(bytes, dry)

\* add_header_to_file without the check for a header that is there
add_header_to_file_unguarded(file_path, project_root, dry, bytes, outcome, written) ==
    IF outcome = "read_error" \/ ~Decodable(bytes)
    THEN [ret |-> FALSE, bytes |-> bytes, printed |-> "error", raised |-> FALSE]
    ELSE
    LET content == read(bytes) IN
    LET description == get_file_description(file_path, project_root)
        header == AGPL_HEADER(description)
        new == new_content(content, header)
    IN  IF dry
        THEN [ret |-> TRUE, bytes |-> bytes, printed |-> "dry run", raised |-> FALSE]
        ELSE IF outcome = "open_error"
        THEN [ret |-> FALSE, bytes |-> bytes, printed |-> "error", raised |-> FALSE]
        ELSE IF outcome = "write_error"
        THEN [ret |-> FALSE, bytes |-> Prefix(write(new), written),
              printed |-> "error", raised |-> FALSE]
        ELSE [ret |-> TRUE, bytes |-> write(new), printed |-> "added", raised |-> FALSE]

\* add_header_to_file writing the file in a dry run as well
add_header_to_file_dry_writes(file_path, project_root, dry, bytes, outcome, written) ==
    IF outcome = "read_error" \/ ~Decodable(bytes)
    THEN [ret |-> FALSE, bytes |-> bytes, printed |-> "error", raised |-> FALSE]
    ELSE
    LET content == read(bytes) IN
    IF already_has_header(content)
    THEN [ret |-> FALSE, bytes |-> bytes, printed |-> "nothing", raised |-> FALSE]
    ELSE
    LET description == get_file_description(file_path, project_root)
        header == AGPL_HEADER(description)
        new == new_content(content, header)
    IN  IF dry
        THEN [ret |-> TRUE, bytes |-> write(new), printed |-> "dry run",
              raised |-> FALSE]
        ELSE IF outcome = "open_error"
        THEN [ret |-> FALSE, bytes |-> bytes, printed |-> "error", raised |-> FALSE]
        ELSE IF outcome = "write_error"
        THEN [ret |-> FALSE, bytes |-> Prefix(write(new), written),
              printed |-> "error", raised |-> FALSE]
        ELSE [ret |-> TRUE, bytes |-> write(new), printed |-> "added", raised |-> FALSE]

\* add_header_to_file without the handler of exceptions
add_header_to_file_uncaught(file_path, project_root, dry, bytes, outcome, written) ==
    IF outcome = "read_error" \/ ~Decodable(bytes)
    THEN [ret |-> FALSE, bytes |-> bytes, printed |-> "error", raised |-> TRUE]
    ELSE
    LET content == read(bytes) IN
    IF already_has_header(content)
    THEN [ret |-> FALSE, bytes |-> bytes, printed |-> "nothing", raised |-> FALSE]
    ELSE
    LET description == get_file_description(file_path, project_root)
        header == AGPL_HEADER(description)
        new == new_content(content, header)
    IN  IF dry
        THEN [ret |-> TRUE, bytes |-> bytes, printed |-> "dry run", raised |-> FALSE]
        ELSE IF outcome = "open_error"
        THEN [ret |-> FALSE, bytes |-> bytes, printed |-> "error", raised |-> TRUE]
        ELSE IF outcome = "write_error"
        THEN [ret |-> FALSE, bytes |-> Prefix(write(new), written),
              printed |-> "error", raised |-> TRUE]
        ELSE [ret |-> TRUE, bytes |-> write(new), printed |-> "added", raised |-> FALSE]

\* add_header_to_file(file_path, project_root, dry_run) on a file that holds
\* bytes: the value returned, the bytes the file holds afterwards, what was
\* printed, and whether an exception left the function (none does: the
\* handler catches every Exception).  written is the number of characters
\* that reached the file before a failing write.
add_header_to_file(file_path, project_root, dry, bytes, outcome, written) ==
    IF outcome = "read_error" \/ ~Decodable(bytes)
    THEN [ret |-> FALSE, bytes |-> bytes, printed |-> "error", raised |-> FALSE]
    ELSE
    LET content == read(bytes) IN
    IF already_has_header(content)
    THEN [ret |-> FALSE, bytes |-> bytes, printed |-> "nothing", raised |-> FALSE]
    ELSE
    LET description == get_file_description(file_path, project_root)
        header == AGPL_HEADER(description)
        new == new_content(content, header)
    IN  IF dry
        THEN [ret |-> TRUE, bytes |-> bytes, printed |-> "dry run", raised |-> FALSE]
        ELSE IF outcome = "open_error"
        THEN [ret |-> FALSE, bytes |-> bytes, printed |-> "error", raised |-> FALSE]
        ELSE IF outcome = "write_error"
        THEN [ret |-> FALSE, bytes |-> Prefix(write(new), written),
              printed |-> "error", raised |-> FALSE]
        ELSE [ret |-> TRUE, bytes |-> write(new), printed |-> "added", raised |-> FALSE]

----------------------------------------------------------------------------
(* Inputs *)

RECURSIVE Pad(_)
\* n characters of a comment line
Pad(n) ==
    IF n = 0 THEN ""
    ELSE IF n % 2 = 1 THEN "/" \o Pad(n - 1)
    ELSE LET half == Pad(n \div 2) IN half \o half

Body == "export const x = 1;\n"

Shebang == "#!/usr/bin/env node"

\* the contents of the files of a run
RunContents == {
    Body,
    Shebang \o "\n" \o Body,
    Shebang,
    Shebang \o "\r\n" \o "export const x = 1;\r\n",
    "// SPDX-License-Identifier: AGPL-3.0\n" \o Body,
    BadByte \o Body }

\* the contents around the window of the abbreviated marker: the marker, or
\* a text that is none, after n characters
HeaderContents ==
    {Pad(n) \o m \o t :
        n \in {0} \cup ((HeaderWindow - 4 - PadSlack)..(HeaderWindow + PadSlack)),
        m \in {ShortMarker, FullMarker, "AGP-L", "agpl"},
        t \in {"", "\n" \o Body}}

Roots == { <<"/", "home", "dev", "codex7">>,
           <<"/", "home", "dev", "build", "codex7">>,
           <<>> }

\* the candidate files of a run, by their paths below the root
RunPaths == { <<"src", "a.ts">>, <<"packages", "shared", "b.tsx">> }

\* a file of every run that the scan skips
SkippedPath == <<"lib", "util.ts">>

\* the files of the trees of the scan
ScanPaths == { <<"src", "a.ts">>,
               <<"packages", "shared", "b.tsx">>,
               <<"packages", "shared-extra", "c.ts">>,
               <<"packages", "mcp-server", "index.ts">>,
               <<"packages", "web", "App.spec.tsx">>,
               <<"lib", "util.ts">>,
               <<"src", "build", "f.ts">>,
               <<"src", "library", "g.ts">>,
               <<"src", "e.test.ts">>,
               <<"src", "types.d.ts">>,
               <<"vite.config.ts">>,
               <<"README.md">> }

----------------------------------------------------------------------------
(* main *)

NoSummary == [modified |-> -1, scanned |-> -1, dry |-> FALSE]

InitRun ==
    /\ pc = "start"
    /\ source_files = <<>>
    /\ idx = 1
    /\ modified_count = 0
    /\ results = <<>>
    /\ rewritten = {}
    /\ before_run = fs
    /\ run = 1
    /\ failures = 0
    /\ summary = NoSummary
    /\ desc_calls = {}

\* a run over a tree of candidate files of any contents
Init ==
    /\ root = <<"/", "home", "dev", "codex7">>
    /\ tree = RunPaths \cup {SkippedPath}
    /\ fs \in [tree -> RunContents]
    /\ fs[SkippedPath] = Body
    /\ dry_run \in BOOLEAN
    /\ InitRun

\* main, lines 175 to 185: the scan
Scan ==
    /\ pc = "start"
    /\ source_files' = find_source_files(root, tree)
    /\ modified_count' = 0
    /\ idx' = 1
    /\ results' = <<>>
    /\ summary' = NoSummary
    /\ before_run' = fs
    /\ pc' = "process"
    /\ UNCHANGED <<root, tree, fs, dry_run, rewritten, run, failures, desc_calls>>

\* main, lines 186 to 188: one iteration of the loop over source_files; an
\* exception that leaves add_header_to_file ends the run
ProcessFile ==
    /\ pc = "process"
    /\ idx <= Len(source_files)
    /\ LET file_path == source_files[idx]
           rel == relative_to(file_path, root)
       IN  \E outcome \in Outcomes :
           \E written \in {0, (Len(fs[rel]) + Len(AGPL_HEADER(""))) \div 2} :
              /\ outcome # "ok" => failures < MaxFailures
              /\ outcome # "write_error" => written = 0
              /\ Possible(outcome, fs[rel], dry_run)
              /\ LET r == add_header_to_file(file_path, root, dry_run,
                                             fs[rel], outcome, written)
                 IN  /\ fs' = [fs EXCEPT ![rel] = r.bytes]
                     /\ rewritten' = IF r.printed = "added"
                                     THEN rewritten \cup {rel} ELSE rewritten
                     /\ IF r.raised
                        THEN /\ pc' = "aborted"
                             /\ UNCHANGED <<modified_count, results, idx>>
                        ELSE /\ modified_count' =
                                    modified_count + (IF r.ret THEN 1 ELSE 0)
                             /\ results' = Append(results,
                                    [file_path |-> file_path, before |-> fs[rel],
                                     ret |-> r.ret, printed |-> r.printed,
                                     outcome |-> outcome, dry |-> dry_run,
                                     rewritten_before |-> rel \in rewritten])
                             /\ idx' = idx + 1
                             /\ pc' = pc
              /\ failures' = IF outcome = "ok" THEN failures ELSE failures + 1
    /\ UNCHANGED <<root, tree, dry_run, source_files, before_run, run, summary,
                   desc_calls>>

\* main, lines 190 to 197: the summary
Summary ==
    /\ pc = "process"
    /\ idx > Len(source_files)
    /\ summary' = [modified |-> modified_count, scanned |-> Len(source_files),
                   dry |-> dry_run]
    /\ pc' = "done"
    /\ UNCHANGED <<root, tree, fs, dry_run, source_files, idx, modified_count,
                   results, rewritten, before_run, run, failures, desc_calls>>

\* the script is run again over the tree the last run left
Rerun ==
    /\ pc = "done"
    /\ run < MaxRuns
    /\ run' = run + 1
    /\ dry_run' \in BOOLEAN
    /\ pc' = "start"
    /\ UNCHANGED <<root, tree, fs, source_files, idx, modified_count, results,
                   rewritten, before_run, failures, summary, desc_calls>>

Next == Scan \/ ProcessFile \/ Summary \/ Rerun

Spec == Init /\ [][Next]_vars

----------------------------------------------------------------------------
(* The scan and the description, on trees of files of all kinds *)

InitScan ==
    /\ root \in Roots
    /\ tree \in {T \in SUBSET ScanPaths : Cardinality(T) <= MaxTree}
    /\ fs = [rel \in tree |-> Body]
    /\ dry_run = FALSE
    /\ InitRun

\* get_file_description is called for a file of the tree
Describe ==
    /\ \E rel \in tree :
          desc_calls' = desc_calls \cup
              {[file_path |-> root \o rel, project_root |-> root,
                description |-> get_file_description(root \o rel, root)]}
    /\ UNCHANGED <<root, tree, fs, dry_run, pc, source_files, idx,
                   modified_count, results, rewritten, before_run, run,
                   failures, summary>>

NextScan == Scan \/ Describe

SpecScan == InitScan /\ [][NextScan]_vars

----------------------------------------------------------------------------
(* A run over one file whose content has a marker, or none, around the     *)
(* window of the abbreviated marker                                        *)

InitHeader ==
    /\ root = <<"/", "home", "dev", "codex7">>
    /\ tree = { <<"src", "a.ts">> }
    /\ fs \in [tree -> HeaderContents]
    /\ dry_run \in BOOLEAN
    /\ InitRun

SpecHeader == InitHeader /\ [][Next]_vars

----------------------------------------------------------------------------
(* Properties *)

\* the path below the root of the file of a result
RelOf(r) == relative_to(r.file_path, root)

\* the call of a result could open the file and decode what it holds
WasRead(r) == r.outcome # "read_error" /\ Decodable(r.before)

\* the name of the licence occurs somewhere in the text, or its abbreviation
\* occurs with all its four characters among the first 500
LicenseMarked(text) ==
    \/ \E i \in 1..Len(text) :
          /\ i + 32 <= Len(text)
          /\ SubSeq(text, i, i + 32) = "GNU Affero General Public License"
    \/ \E i \in 1..Len(text) :
          /\ i + 3 <= Len(text)
          /\ i + 3 <= 500
          /\ SubSeq(text, i, i + 3) = "AGPL"

\* the number of times x occurs in the list
Occurrences(list, x) == Cardinality({i \in 1..Len(list) : list[i] = x})

\* C1: a call of add_header_to_file on a file whose content has the licence
\* marker returns false and leaves the bytes of the file as they were, in
\* the first run and in every later one, in a dry run or not.
C1_MarkedFileUntouched ==
    \A i \in 1..Len(results) :
        LET r == results[i]
        IN  (Decodable(r.before) /\ LicenseMarked(read(r.before)))
                => (r.ret = FALSE /\ fs[RelOf(r)] = r.before)

C1_Witness ==
    /\ run = 2
    /\ pc = "done"
    /\ \E i \in 1..Len(results) :
          /\ results[i].before = "// SPDX-License-Identifier: AGPL-3.0\n" \o Body
          /\ ~results[i].dry
          /\ results[i].ret = FALSE
          /\ fs[RelOf(results[i])] = results[i].before

\* C2: a file that add_header_to_file rewrote has a content for which
\* already_has_header holds; every later call on it returns false and leaves
\* it unchanged, and a run over files that were all rewritten before
\* modifies none.
C2_RerunIsNoOp ==
    /\ \A rel \in rewritten :
          Decodable(fs[rel]) /\ already_has_header(read(fs[rel]))
    /\ \A i \in 1..Len(results) :
          results[i].rewritten_before
              => (results[i].ret = FALSE /\ fs[RelOf(results[i])] = results[i].before)
    /\ (pc = "done" /\ \A i \in 1..Len(results) : results[i].rewritten_before)
          => summary.modified = 0

C2_Witness ==
    /\ run = 2
    /\ pc = "done"
    /\ Len(results) = Cardinality(RunPaths)
    /\ \A i \in 1..Len(results) : results[i].rewritten_before
    /\ \E i \in 1..Len(results) : StartsWith(results[i].before, Shebang \o "\n/**")
    /\ \E i \in 1..Len(results) : StartsWith(results[i].before, "/**")
    /\ summary.modified = 0

\* C3: after a call that rewrote a file, the file holds, when it began with
\* "#!" and had a newline, its first line, a newline, the rendered header
\* and the rest as it was, and otherwise the rendered header followed by
\* all it held before.
C3_ShebangPreserved ==
    \A i \in 1..Len(results) :
        LET r == results[i]
            old == r.before
            now == fs[RelOf(r)]
            header == AGPL_HEADER(get_file_description(r.file_path, root))
            nl == IndexOf(old, "\n")
        IN  r.printed = "added" =>
               IF StartsWith(old, "#!")
               THEN nl # 0 =>
                       now = SubSeq(old, 1, nl - 1) \o "\n" \o header
                             \o SubSeq(old, nl + 1, Len(old))
               ELSE now = header \o old

\* C4 as stated: a dry run reports as many files as there are candidates
\* without a header, and changes no file.
C4_DryRunCountsEveryUnmarked ==
    (pc = "done" /\ summary.dry) =>
        /\ summary.modified =
              Cardinality({i \in 1..Len(results) :
                              ~LicenseMarked(universal_newlines(results[i].before))})
        /\ fs = before_run

\* C4, amended: a dry run reports as many files as there are candidates
\* without a header that could be read, add_header_to_file returning true
\* for each of these and false for one that could not be read, and changes
\* no file.
C4_DryRunCountsReadableUnmarked ==
    (pc = "done" /\ summary.dry) =>
        /\ Len(results) = Len(source_files)
        /\ summary.modified =
              Cardinality({i \in 1..Len(results) :
                              /\ WasRead(results[i])
                              /\ ~LicenseMarked(read(results[i].before))})
        /\ \A i \in 1..Len(results) :
              /\ (WasRead(results[i]) /\ ~LicenseMarked(read(results[i].before)))
                    => results[i].ret = TRUE
              /\ ~WasRead(results[i]) => results[i].ret = FALSE
        /\ fs = before_run

C4_Witness ==
    /\ pc = "done"
    /\ summary.dry
    /\ summary.modified = 1
    /\ \E i \in 1..Len(results) : results[i].before = Body /\ results[i].ret
    /\ \E i \in 1..Len(results) :
          ~Decodable(results[i].before) /\ ~results[i].ret

\* C5: a failure of the read or the write of one file does not end the run:
\* the file is reported as an error and not counted, every other candidate
\* without a header is rewritten, the loop has gone through every candidate
\* before the one it is at, whatever failed, and the summary is that of all
\* candidates and counts the files rewritten.
C5_PartialFailureIsolation ==
    /\ pc # "aborted"
    /\ pc = "process" => (Len(results) = idx - 1 /\ idx <= Len(source_files) + 1)
    /\ \A i \in 1..Len(results) :
          LET r == results[i]
          IN  /\ (r.outcome # "ok" \/ ~Decodable(r.before))
                    => (r.printed = "error" /\ r.ret = FALSE)
              /\ (r.outcome = "ok" /\ Decodable(r.before) /\ ~r.dry
                    /\ ~LicenseMarked(read(r.before)))
                    => /\ r.ret = TRUE
                       /\ r.printed = "added"
                       /\ fs[RelOf(r)] # r.before
                       /\ LicenseMarked(read(fs[RelOf(r)]))
    /\ pc = "done" =>
          /\ Len(results) = Len(source_files)
          /\ \A i \in 1..Len(results) : results[i].file_path = source_files[i]
          /\ summary.scanned = Len(source_files)
          /\ summary.modified =
                Cardinality({i \in 1..Len(results) : results[i].ret})

C5_Witness ==
    /\ pc = "done"
    /\ Len(results) >= 2
    /\ results[1].outcome = "write_error"
    /\ results[1].printed = "error"
    /\ results[2].printed = "added"
    /\ summary.modified = 1

\* C6: no path that find_source_files returns has a directory of the skip
\* set among its parts, and none has a name that ends with a suffix of the
\* skip set.
C6_ExclusionCorrect ==
    pc # "start" =>
        \A i \in 1..Len(source_files) :
            LET p == source_files[i]
            IN  /\ \A k \in 1..Len(p) :
                      p[k] \notin {"node_modules", "lib", "dist", "build", ".git",
                                   "coverage", "__pycache__", ".next", ".cache"}
                /\ \A suffix \in {".d.ts", ".test.ts", ".test.tsx", ".spec.ts",
                                  ".spec.tsx", "vitest.config.ts", "vite.config.ts"} :
                      ~EndsWith(Name(p), suffix)

C6_Witness ==
    /\ pc = "process"
    /\ tree = { <<"src", "e.test.ts">>, <<"src", "a.ts">> }
    /\ source_files = << root \o <<"src", "a.ts">> >>

\* C7: under any root, find_source_files returns exactly once every .ts or
\* .tsx file whose path below the root has no directory of the skip set and
\* whose name has no suffix of the skip set.
C7_ScanComplete ==
    pc # "start" =>
        \A rel \in tree :
            ( /\ EndsWith(Name(rel), ".ts") \/ EndsWith(Name(rel), ".tsx")
              /\ \A k \in 1..Len(rel) : rel[k] \notin SKIP_DIRS
              /\ \A suffix \in SKIP_FILES : ~EndsWith(Name(rel), suffix) )
                => Occurrences(source_files, root \o rel) = 1

\* C8: get_file_description returns the description of the first entry of
\* the table whose prefix the relative path starts with, as a string, and
\* the default description exactly when there is no such entry.
C8_DescriptionSelection ==
    \A c \in desc_calls :
        LET relative == Join(relative_to(c.file_path, c.project_root))
            Matches(i) ==
                /\ Len(FILE_DESCRIPTIONS[i][1]) <= Len(relative)
                /\ SubSeq(relative, 1, Len(FILE_DESCRIPTIONS[i][1]))
                      = FILE_DESCRIPTIONS[i][1]
            N == Len(FILE_DESCRIPTIONS)
        IN  /\ \A i \in 1..N :
                  (Matches(i) /\ \A j \in 1..(i - 1) : ~Matches(j))
                      => c.description = FILE_DESCRIPTIONS[i][2]
            /\ (c.description = "Truly Open Source Documentation MCP Server")
                  <=> (\A i \in 1..N : ~Matches(i))
            /\ (Len(relative) >= 19 /\ SubSeq(relative, 1, 19) = "packages/mcp-server")
                  => c.description = "MCP Server Implementation"

C8_Witness ==
    /\ \E c \in desc_calls :
          /\ c.file_path = root \o <<"packages", "mcp-server", "index.ts">>
          /\ c.description = "MCP Server Implementation"
    /\ \E c \in desc_calls :
          /\ c.file_path = root \o <<"src", "a.ts">>
          /\ c.description = "Truly Open Source Documentation MCP Server"

\* C9: already_has_header holds of a content exactly when the name of the
\* licence occurs in it or "AGPL" occurs within its first 500 characters; a
\* file whose only marker is an "AGPL" further down is taken to have no
\* header and is rewritten.
C9_HeaderDetection ==
    \A i \in 1..Len(results) :
        LET r == results[i]
            text == read(r.before)
        IN  WasRead(r) =>
               /\ already_has_header(text) <=> LicenseMarked(text)
               /\ (r.printed = "nothing") <=> LicenseMarked(text)
               /\ (~LicenseMarked(text) /\ ~r.dry /\ r.outcome = "ok")
                     => (r.ret = TRUE /\ r.printed = "added"
                         /\ fs[RelOf(r)] = AGPL_HEADER(DefaultDescription) \o r.before)

C9_Witness ==
    /\ pc = "done"
    /\ \E i \in 1..Len(results) :
          /\ results[i].before = Pad(497) \o "AGPL"
          /\ results[i].printed = "added"
          /\ fs[RelOf(results[i])] # results[i].before

\* C10: whenever add_header_to_file returns false, the file holds what it
\* held before the call.
C10_FalseMeansUnchanged ==
    \A i \in 1..Len(results) :
        results[i].ret = FALSE => fs[RelOf(results[i])] = results[i].before

====
